---------------------------- MODULE Spec2Model ----------------------------
(***************************************************************************)
(* figma-mcp-vercel: an HTTP handler that exposes two Figma operations     *)
(* (get-file, export-node) as JSON-RPC tools over POST and keeps an SSE    *)
(* stream alive over GET.                                                   *)
(*                                                                         *)
(* The repository holds three versions of the handler:                     *)
(*   "mcp"     src/unnamed/part_000          (OPTIONS, GET = SSE, POST)    *)
(*   "server1" src/api/server.ts lines 1-62  (no routing, no catch)        *)
(*   "server2" src/api/server.ts lines 64-163 (GET = health check)         *)
(* The variable impl says which of them serves the requests of a run.      *)
(*                                                                         *)
(* JavaScript values are tagged records: [t |-> "undefined"],              *)
(* [t |-> "null"], [t |-> "bool", b], [t |-> "num", n] (n in hundredths),   *)
(* [t |-> "str", s] (an atomic string), [t |-> "text", c] (a string whose   *)
(* characters matter, as a sequence of JSON tokens), [t |-> "arr", a],      *)
(* [t |-> "obj", o] (a sequence of [k, v] members, in insertion order) and  *)
(* [t |-> "fn"] (a function object).                                        *)
(***************************************************************************)
EXTENDS Integers, Sequences, FiniteSets, TLC

(***************************************************************************)
(* Bounds of the model.                                                    *)
(***************************************************************************)
MaxConn == 2
MaxTicks == 2

ConnIds == 1..MaxConn

(***************************************************************************)
(* JavaScript values.                                                      *)
(***************************************************************************)
Undefined == [t |-> "undefined"]
JNull == [t |-> "null"]
JBool(b) == [t |-> "bool", b |-> b]
JNum(n) == [t |-> "num", n |-> n]
JStr(s) == [t |-> "str", s |-> s]
JText(c) == [t |-> "text", c |-> c]
JArr(a) == [t |-> "arr", a |-> a]
JObj(o) == [t |-> "obj", o |-> o]
JFn == [t |-> "fn"]
Member(k, v) == [k |-> k, v |-> v]

\* !v : undefined, null, false, 0 and the empty string are falsy
Falsy(v) ==
    \/ v.t \in {"undefined", "null"}
    \/ v.t = "bool" /\ ~v.b
    \/ v.t = "num" /\ v.n = 0
    \/ v.t = "str" /\ v.s = ""
    \/ v.t = "text" /\ v.c = <<>>

\* The names every object inherits from Object.prototype (the ones the model uses).
ProtoNames == {"constructor", "toString"}

\* obj[key] : the own member named key, else an inherited one, else undefined.
\* On undefined or null the access throws; the callers guard it (?. or a check).
RECURSIVE OwnProp(_, _, _)
OwnProp(o, key, i) ==
    IF i > Len(o) THEN Undefined
    ELSE IF o[i].k = key THEN o[i].v
    ELSE OwnProp(o, key, i + 1)

HasOwn(v, key) == v.t = "obj" /\ \E i \in 1..Len(v.o) : v.o[i].k = key

GetProp(v, key) ==
    IF v.t = "obj"
    THEN IF HasOwn(v, key) THEN OwnProp(v.o, key, 1)
         ELSE IF key \in ProtoNames THEN JFn ELSE Undefined
    ELSE IF key \in ProtoNames THEN JFn ELSE Undefined

(***************************************************************************)
(* Number -> string (String(n), and the number tokens of JSON.stringify).   *)
(* Numbers are held in hundredths: 10 is 0.1, 100 is 1, 401 is 4.01.        *)
(***************************************************************************)
Digit(d) ==
    CASE d = 0 -> "0" [] d = 1 -> "1" [] d = 2 -> "2" [] d = 3 -> "3"
      [] d = 4 -> "4" [] d = 5 -> "5" [] d = 6 -> "6" [] d = 7 -> "7"
      [] d = 8 -> "8" [] d = 9 -> "9"

RECURSIVE IntText(_)
IntText(n) == IF n < 10 THEN Digit(n) ELSE IntText(n \div 10) \o Digit(n % 10)

NumText(h) ==
    LET whole == h \div 100
        frac == h % 100
    IN  IF frac = 0 THEN IntText(whole)
        ELSE IF frac % 10 = 0 THEN IntText(whole) \o "." \o Digit(frac \div 10)
        ELSE IntText(whole) \o "." \o Digit(frac \div 10) \o Digit(frac % 10)

\* The numbers that occur in the model's documents and arguments.
Numbers == {0, 5, 9, 10, 100, 250, 400, 401}

(***************************************************************************)
(* JSON text, as a sequence of tokens: punctuation [p], string literals    *)
(* [q], number literals [d], bare words [w] and white space [ws].          *)
(***************************************************************************)
Punct(p) == [p |-> p]
StrTok(s) == [q |-> s]
NumTok(d) == [d |-> d]
Word(w) == [w |-> w]
Ws(x) == [ws |-> x]

RECURSIVE Indent(_)
Indent(depth) == IF depth = 0 THEN <<>> ELSE <<Ws("  ")>> \o Indent(depth - 1)

\* The line break and indentation JSON.stringify(v, null, 2) puts before an item.
Break(pretty, depth) == IF pretty THEN <<Ws("\n")>> \o Indent(depth) ELSE <<>>

\* JSON.stringify(v) (pretty = FALSE) and JSON.stringify(v, null, 2) (pretty = TRUE)
\* of a value that came out of JSON.parse.
RECURSIVE Stringify(_, _, _)
RECURSIVE StringifyItems(_, _, _, _)
RECURSIVE StringifyMembers(_, _, _, _)
Stringify(v, pretty, depth) ==
    CASE v.t = "null" -> <<Word("null")>>
      [] v.t = "bool" -> <<Word(IF v.b THEN "true" ELSE "false")>>
      [] v.t = "num" -> <<NumTok(NumText(v.n))>>
      [] v.t = "str" -> <<StrTok(v.s)>>
      [] v.t = "arr" ->
            IF v.a = <<>> THEN <<Punct("["), Punct("]")>>
            ELSE <<Punct("[")>> \o StringifyItems(v.a, 1, pretty, depth + 1)
                 \o Break(pretty, depth) \o <<Punct("]")>>
      [] v.t = "obj" ->
            IF v.o = <<>> THEN <<Punct("{"), Punct("}")>>
            ELSE <<Punct("{")>> \o StringifyMembers(v.o, 1, pretty, depth + 1)
                 \o Break(pretty, depth) \o <<Punct("}")>>

StringifyItems(a, i, pretty, depth) ==
    IF i > Len(a) THEN <<>>
    ELSE Break(pretty, depth) \o Stringify(a[i], pretty, depth)
         \o (IF i < Len(a) THEN <<Punct(",")>> ELSE <<>>)
         \o StringifyItems(a, i + 1, pretty, depth)

StringifyMembers(o, i, pretty, depth) ==
    IF i > Len(o) THEN <<>>
    ELSE Break(pretty, depth) \o <<StrTok(o[i].k), Punct(":")>>
         \o (IF pretty THEN <<Ws(" ")>> ELSE <<>>)
         \o Stringify(o[i].v, pretty, depth)
         \o (IF i < Len(o) THEN <<Punct(",")>> ELSE <<>>)
         \o StringifyMembers(o, i + 1, pretty, depth)

(***************************************************************************)
(* JSON.parse: a recursive-descent parser over the tokens.  A result is    *)
(* [ok |-> TRUE, v |-> value, i |-> next position] or [ok |-> FALSE].       *)
(***************************************************************************)
ParseFail == [ok |-> FALSE]
Parsed(v, i) == [ok |-> TRUE, v |-> v, i |-> i]

IsTok(toks, i, field) == i <= Len(toks) /\ field \in DOMAIN toks[i]
IsPunct(toks, i, p) == IsTok(toks, i, "p") /\ toks[i].p = p

RECURSIVE SkipWs(_, _)
SkipWs(toks, i) == IF IsTok(toks, i, "ws") THEN SkipWs(toks, i + 1) ELSE i

RECURSIVE ParseValue(_, _)
RECURSIVE ParseItems(_, _, _)
RECURSIVE ParseMembers(_, _, _)
ParseValue(toks, i0) ==
    LET i == SkipWs(toks, i0) IN
    IF i > Len(toks) THEN ParseFail
    ELSE IF IsTok(toks, i, "w") THEN
        CASE toks[i].w = "null" -> Parsed(JNull, i + 1)
          [] toks[i].w = "true" -> Parsed(JBool(TRUE), i + 1)
          [] toks[i].w = "false" -> Parsed(JBool(FALSE), i + 1)
          [] OTHER -> ParseFail
    ELSE IF IsTok(toks, i, "d") THEN
        IF \E n \in Numbers : NumText(n) = toks[i].d
        THEN Parsed(JNum(CHOOSE n \in Numbers : NumText(n) = toks[i].d), i + 1)
        ELSE ParseFail
    ELSE IF IsTok(toks, i, "q") THEN Parsed(JStr(toks[i].q), i + 1)
    ELSE IF IsPunct(toks, i, "[") THEN
        IF IsPunct(toks, SkipWs(toks, i + 1), "]")
        THEN Parsed(JArr(<<>>), SkipWs(toks, i + 1) + 1)
        ELSE ParseItems(toks, i + 1, <<>>)
    ELSE IF IsPunct(toks, i, "{") THEN
        IF IsPunct(toks, SkipWs(toks, i + 1), "}")
        THEN Parsed(JObj(<<>>), SkipWs(toks, i + 1) + 1)
        ELSE ParseMembers(toks, i + 1, <<>>)
    ELSE ParseFail

\* The items of an array, after "[" or ",".
ParseItems(toks, i0, acc) ==
    LET r == ParseValue(toks, i0) IN
    IF ~r.ok THEN ParseFail
    ELSE LET j == SkipWs(toks, r.i) IN
         IF IsPunct(toks, j, ",") THEN ParseItems(toks, j + 1, Append(acc, r.v))
         ELSE IF IsPunct(toks, j, "]") THEN Parsed(JArr(Append(acc, r.v)), j + 1)
         ELSE ParseFail

\* A later member of the same name replaces the earlier one, in its place.
PutMember(o, k, v) ==
    IF \E i \in 1..Len(o) : o[i].k = k
    THEN [i \in 1..Len(o) |-> IF o[i].k = k THEN Member(k, v) ELSE o[i]]
    ELSE Append(o, Member(k, v))

\* The members of an object, after "{" or ",".
ParseMembers(toks, i0, acc) ==
    LET i == SkipWs(toks, i0) IN
    IF ~IsTok(toks, i, "q") THEN ParseFail
    ELSE LET c == SkipWs(toks, i + 1) IN
         IF ~IsPunct(toks, c, ":") THEN ParseFail
         ELSE LET r == ParseValue(toks, c + 1) IN
              IF ~r.ok THEN ParseFail
              ELSE LET j == SkipWs(toks, r.i) IN
                   IF IsPunct(toks, j, ",")
                   THEN ParseMembers(toks, j + 1, PutMember(acc, toks[i].q, r.v))
                   ELSE IF IsPunct(toks, j, "}")
                   THEN Parsed(JObj(PutMember(acc, toks[i].q, r.v)), j + 1)
                   ELSE ParseFail

\* JSON.parse(text): [ok |-> TRUE, v |-> value], or [ok |-> FALSE] for the
\* SyntaxError it throws.
JSONparse(toks) ==
    LET r == ParseValue(toks, 1) IN
    IF r.ok /\ SkipWs(toks, r.i) > Len(toks) THEN [ok |-> TRUE, v |-> r.v]
    ELSE [ok |-> FALSE]

(***************************************************************************)
(* Errors.  A message is a record: its fixed text m, and the values a       *)
(* template string puts into it.  `Figma ${res.status}: ${text}` is         *)
(* [m |-> "Figma ", status |-> 404, text |-> <the body>].                   *)
(***************************************************************************)
Msg(m) == [m |-> m]
EmptyMsg == Msg("")
Err(name, message) == [name |-> name, message |-> message]

\* String(err?.message || err): the message, or "Error" (the string form
\* of an Error whose message is empty) when the message is empty.
ErrorText(err) == IF err.message # EmptyMsg THEN err.message ELSE Msg(err.name)

Thrown(err) == [ok |-> FALSE, err |-> err]

(***************************************************************************)
(* The tool registry: the two server.tool(...) registrations.               *)
(***************************************************************************)
ToolNames == {"get-file", "export-node"}

\* z.string(): the value must be a string; undefined is "Required".
ZString(v) == v.t = "str"

\* z.enum(['png', 'svg']).default('png')
ZFormatOk(v) == v.t = "undefined" \/ (v.t = "str" /\ v.s \in {"png", "svg"})
ZFormat(v) == IF v.t = "undefined" THEN "png" ELSE v.s

\* ZScaleOk without .max(4)
ZScaleOkNoMax(v) == v.t = "undefined" \/ (v.t = "num" /\ v.n >= 10)

\* z.number().min(0.1).max(4).default(1), in hundredths
ZScaleOk(v) == v.t = "undefined" \/ (v.t = "num" /\ v.n >= 10 /\ v.n <= 400)

\* ZScale with the schema's minimum as the default
ZScaleDefaultMin(v) == IF v.t = "undefined" THEN 10 ELSE v.n

\* The validated scale: the given number, or the default 1.
ZScale(v) == IF v.t = "undefined" THEN 100 ELSE v.n

\* A schema's own member of the arguments (z.object reads the named keys
\* and strips the rest).
Arg(args, key) == IF HasOwn(args, key) THEN GetProp(args, key) ELSE Undefined

\* inputSchema of get-file: the fields that fail, in schema order.
GetFileIssues(args) ==
    IF args.t # "obj" THEN <<"arguments">>
    ELSE IF ZString(Arg(args, "fileKey")) THEN <<>> ELSE <<"fileKey">>

GetFileArgs(args) == [fileKey |-> Arg(args, "fileKey").s]

\* inputSchema of export-node: the fields that fail, in schema order.
ExportNodeIssues(args) ==
    IF args.t # "obj" THEN <<"arguments">>
    ELSE (IF ZString(Arg(args, "fileKey")) THEN <<>> ELSE <<"fileKey">>)
      \o (IF ZString(Arg(args, "nodeId")) THEN <<>> ELSE <<"nodeId">>)
      \o (IF ZFormatOk(Arg(args, "format")) THEN <<>> ELSE <<"format">>)
      \o (IF ZScaleOk(Arg(args, "scale")) THEN <<>> ELSE <<"scale">>)

ExportNodeArgs(args) ==
    [fileKey |-> Arg(args, "fileKey").s,
     nodeId |-> Arg(args, "nodeId").s,
     format |-> ZFormat(Arg(args, "format")),
     scale |-> ZScale(Arg(args, "scale"))]

(***************************************************************************)
(* figma(path, params): the request it sends, and what it makes of the     *)
(* response.                                                               *)
(***************************************************************************)
\* Which versions of figma() check the token before the request.
ChecksToken(impl) == impl \in {"mcp", "server2"}

TokenError == Err("Error", Msg("FIGMA_ACCESS_TOKEN mangler i environment variables"))

\* The request fetch() is given: the URL's path, its query, and the token header.
FigmaRequest(path, query, hasToken) ==
    [base |-> "https://api.figma.com/v1/", path |-> path, query |-> query,
     token |-> hasToken]

\* figma() up to its await: it throws, or it sends one request.
FigmaCall(impl, hasToken, path, query) ==
    IF ChecksToken(impl) /\ ~hasToken THEN Thrown(TokenError)
    ELSE [ok |-> TRUE, request |-> FigmaRequest(path, query, hasToken)]

\* What the remote API may answer: an HTTP response, or no response at all.
HttpResponse(status, body) == [kind |-> "http", status |-> status, body |-> body]
NetworkFailure(err) == [kind |-> "failed", err |-> err]

ResOk(status) == status >= 200 /\ status <= 299

\* figma() after its await: the parsed document, or the error it throws.
FigmaResult(resp) ==
    IF resp.kind = "failed" THEN Thrown(resp.err)
    ELSE IF ~ResOk(resp.status)
    THEN Thrown(Err("Error", [m |-> "Figma ", status |-> resp.status, text |-> JText(resp.body)]))
    ELSE LET p == JSONparse(resp.body) IN
         IF p.ok THEN [ok |-> TRUE, data |-> p.v]
         ELSE Thrown(Err("SyntaxError", Msg("Unexpected token in JSON")))

(***************************************************************************)
(* The two tool handlers.                                                  *)
(***************************************************************************)
\* get-file pretty-prints in part_000 and not in server.ts.
PrettyPrints(impl) == impl = "mcp"

NoUrlError(impl) ==
    Err("Error", Msg(IF impl = "server2"
                     THEN "Ingen billed-URL retur fra Figma (tjek nodeId/fileKey)"
                     ELSE "Ingen billed-URL retur fra Figma"))

\* The request a tool's handler makes.
GetFileCall(impl, hasToken, a) ==
    FigmaCall(impl, hasToken, <<"files/", a.fileKey>>, <<>>)

ExportNodeCall(impl, hasToken, a) ==
    FigmaCall(impl, hasToken, <<"images/", a.fileKey>>,
              << <<"ids", a.nodeId>>, <<"format", a.format>>,
                 <<"scale", NumText(a.scale)>> >>)

\* GetFileResult with String(data) in place of JSON.stringify(data)
GetFileResultToString(impl, data) ==
    [ok |-> TRUE,
     result |-> [content |->
        << [type |-> "json",
            text |-> JText(IF data.t \in {"obj", "arr"} THEN <<Word("[object Object]")>>
                           ELSE Stringify(data, FALSE, 0))] >>]]

\* get-file's handler after figma() returned data.
GetFileResult(impl, data) ==
    [ok |-> TRUE,
     result |-> [content |->
        << [type |-> "json", text |-> JText(Stringify(data, PrettyPrints(impl), 0))] >>]]

\* data.images?.[nodeId]; data.images throws on null.
ImageUrl(data, nodeId) ==
    LET images == GetProp(data, "images") IN
    IF images.t \in {"undefined", "null"} THEN Undefined ELSE GetProp(images, nodeId)

\* ExportNodeResult without `if (!url) throw`
ExportNodeResultUnchecked(impl, data, a) ==
    IF data.t = "null"
    THEN Thrown(Err("TypeError", Msg("Cannot read properties of null (reading 'images')")))
    ELSE [ok |-> TRUE,
          result |-> [content |-> << [type |-> "text", text |-> ImageUrl(data, a.nodeId)] >>]]

\* export-node's handler after figma() returned data.
ExportNodeResult(impl, data, a) ==
    IF data.t = "null"
    THEN Thrown(Err("TypeError", Msg("Cannot read properties of null (reading 'images')")))
    ELSE IF Falsy(ImageUrl(data, a.nodeId)) THEN Thrown(NoUrlError(impl))
    ELSE [ok |-> TRUE,
          result |-> [content |-> << [type |-> "text", text |-> ImageUrl(data, a.nodeId)] >>]]

(***************************************************************************)
(* server.handleJSON(body): the SDK's dispatcher.  It finds the tool the    *)
(* envelope names, validates the arguments against the tool's inputSchema   *)
(* and only then calls the tool's handler; a failure rejects its promise.   *)
(***************************************************************************)
InvalidRequest == Err("Error", Msg("Invalid request"))
UnknownTool(name) == Err("Error", [m |-> "Unknown tool: ", name |-> name])
InvalidArguments(fields) == Err("ZodError", [m |-> "Invalid input: ", fields |-> fields])

ToolName(env) == GetProp(GetProp(env, "params"), "name")
ToolArguments(env) == GetProp(GetProp(env, "params"), "arguments")

IsToolCall(env) ==
    /\ env.t = "obj"
    /\ GetProp(env, "method") = JStr("tools/call")
    /\ GetProp(env, "params").t = "obj"

Registered(name) == name.t = "str" /\ name.s \in ToolNames

SchemaIssues(tool, args) ==
    IF tool = "get-file" THEN GetFileIssues(args) ELSE ExportNodeIssues(args)

ParsedArgs(tool, args) ==
    IF tool = "get-file" THEN GetFileArgs(args) ELSE ExportNodeArgs(args)

ToolCall(impl, hasToken, tool, a) ==
    IF tool = "get-file" THEN GetFileCall(impl, hasToken, a)
    ELSE ExportNodeCall(impl, hasToken, a)

\* handleJSON up to the handler's await: the error it rejects with, or the
\* validated call and the request the handler sent.
HandleJSON(impl, hasToken, env) ==
    IF ~IsToolCall(env) THEN Thrown(InvalidRequest)
    ELSE IF ~Registered(ToolName(env)) THEN Thrown(UnknownTool(ToolName(env)))
    ELSE LET tool == ToolName(env).s
             args == ToolArguments(env)
         IN  IF SchemaIssues(tool, args) # <<>>
             THEN Thrown(InvalidArguments(SchemaIssues(tool, args)))
             ELSE LET a == ParsedArgs(tool, args)
                      sent == ToolCall(impl, hasToken, tool, a)
                  IN  IF ~sent.ok THEN sent
                      ELSE [ok |-> TRUE, call |-> [tool |-> tool, args |-> a],
                            request |-> sent.request]

\* The handler after figma() settled: the tool's result or the error.
ToolResult(impl, call, resp) ==
    LET f == FigmaResult(resp) IN
    IF ~f.ok THEN f
    ELSE IF call.tool = "get-file" THEN GetFileResult(impl, f.data)
    ELSE ExportNodeResult(impl, f.data, call.args)

\* The reply handleJSON resolves with.
Reply(env, result) ==
    [jsonrpc |-> "2.0", id |-> GetProp(env, "id"), result |-> result]

(***************************************************************************)
(* The response object, and one connection's state.                        *)
(***************************************************************************)
HeaderNames ==
    {"Access-Control-Allow-Origin", "Access-Control-Allow-Methods",
     "Access-Control-Allow-Headers", "Content-Type", "Cache-Control", "Connection"}

NoHeaders == [h \in HeaderNames |-> ""]

NoCall == [tool |-> "none"]
NoOutcome == [kind |-> "none"]
NoError == Err("", EmptyMsg)

\* pc: "idle" (no request yet), "fetch" (a POST awaiting the remote API),
\* "sse" (an open event stream), "done" (the response has ended),
\* "crashed" (an exception left the handler).
\* path, invoked, fetches, backend, outcome, ticks, closed record what
\* happened; the program does not read them.
\* broken: the socket under req and res is destroyed (the peer is gone);
\* failed: a res.write found it so; missed: req's 'close' was emitted before
\* the handler registered its listener.
IdleConn ==
    [pc |-> "idle", method |-> "", body |-> Undefined, path |-> "none",
     status |-> 0, headers |-> NoHeaders, sent |-> [kind |-> "none"],
     ended |-> FALSE, invoked |-> FALSE, env |-> Undefined, call |-> NoCall,
     fetches |-> <<>>, backend |-> [kind |-> "none"], outcome |-> NoOutcome,
     uncaught |-> NoError, events |-> <<>>, timer |-> FALSE, ticks |-> 0,
     listener |-> FALSE, closed |-> FALSE,
     broken |-> FALSE, failed |-> FALSE, missed |-> FALSE]

\* cors(res)
Cors(r) ==
    [r EXCEPT !.headers = [@ EXCEPT
        !["Access-Control-Allow-Origin"] = "*",
        !["Access-Control-Allow-Methods"] = "POST, GET, OPTIONS",
        !["Access-Control-Allow-Headers"] = "Content-Type"]]

\* res.status(200).end()
EndEmpty(r) ==
    [r EXCEPT !.status = 200, !.sent = [kind |-> "empty"], !.ended = TRUE, !.pc = "done"]

\* res.status(status).json(value), and res.status(status).send(JSON.stringify(value))
\* after res.setHeader('Content-Type', 'application/json')
SendJson(r, status, value) ==
    [r EXCEPT !.status = status,
              !.headers = [@ EXCEPT !["Content-Type"] = "application/json"],
              !.sent = [kind |-> "json", value |-> value],
              !.ended = TRUE, !.pc = "done"]

\* An exception leaves the handler: its promise rejects, nothing is sent.
Crash(r, err) == [r EXCEPT !.pc = "crashed", !.uncaught = err]

(***************************************************************************)
(* The SSE branch of part_000's handler.                                   *)
(***************************************************************************)
InitializedEvent == "data: {\"jsonrpc\":\"2.0\",\"method\":\"initialized\",\"params\":{}}\n\n"
PingEvent == "data: {\"jsonrpc\":\"2.0\",\"method\":\"ping\"}\n\n"

\* res.write(chunk): the first write sends the head with the status 200.
\* On a destroyed socket the chunk is dropped and write returns false; it
\* does not throw, and the handler does not look at what it returns.
Write(r, chunk) ==
    [r EXCEPT !.status = 200, !.sent = [kind |-> "stream"],
              !.events = Append(@, chunk), !.failed = @ \/ r.broken]

\* OpenSSE without the first res.write
OpenSSENoInit(r) ==
    [r EXCEPT !.path = "sse", !.status = 200, !.sent = [kind |-> "stream"],
              !.timer = TRUE, !.listener = TRUE, !.missed = r.broken, !.pc = "sse"]

\* The GET branch: headers, the first event, the timer, the close listener.
OpenSSE(r) ==
    LET h == [r EXCEPT !.path = "sse", !.headers = [@ EXCEPT
                !["Content-Type"] = "text/event-stream",
                !["Cache-Control"] = "no-cache",
                !["Connection"] = "keep-alive",
                !["Access-Control-Allow-Origin"] = "*",
                !["Access-Control-Allow-Headers"] = "Cache-Control"]]
    IN  [Write(h, InitializedEvent) EXCEPT !.timer = TRUE, !.listener = TRUE,
                                           !.missed = r.broken, !.pc = "sse"]

\* KeepAlive that stops its own timer after the ping
KeepAliveOnce(r) == [Write(r, PingEvent) EXCEPT !.ticks = @ + 1, !.timer = FALSE]

\* The setInterval callback.
KeepAlive(r) == [Write(r, PingEvent) EXCEPT !.ticks = @ + 1]

\* The peer goes away: the socket is destroyed.  No code of the handler runs.
Destroy(r) == [r EXCEPT !.broken = TRUE]

\* OnClose without clearInterval(keepAlive)
OnCloseNoClear(r) == [r EXCEPT !.ended = TRUE, !.closed = TRUE, !.pc = "done"]

\* The req.on('close') callback: clearInterval(keepAlive); res.end().
OnClose(r) == [r EXCEPT !.timer = FALSE, !.ended = TRUE, !.closed = TRUE, !.pc = "done"]

\* The timer callback of connection c's handler call: `res` is that call's
\* res, so it writes to connection c and to no other.
KeepAliveOf(cs, c) == [cs EXCEPT ![c] = KeepAlive(cs[c])]

\* OnCloseOf with one keepAlive shared by all handler calls
OnCloseOfShared(cs, c) ==
    [d \in DOMAIN cs |-> IF d = c THEN OnClose(cs[d]) ELSE [cs[d] EXCEPT !.timer = FALSE]]

\* The close listener of connection c's handler call: `keepAlive` and `res`
\* are constants of that call, so it cancels and ends connection c's only.
OnCloseOf(cs, c) == [cs EXCEPT ![c] = OnClose(cs[c])]

(***************************************************************************)
(* The POST pipeline.                                                      *)
(***************************************************************************)
\* Which versions have the `if (!body)` check and the try/catch.
ChecksBody(impl) == impl \in {"mcp", "server2"}
Catches(impl) == impl \in {"mcp", "server2"}

MissingBody(impl) ==
    Msg(IF impl = "server2" THEN "Missing JSON body (MCP envelope)" ELSE "Missing JSON body")

\* typeof req.body === 'string' ? JSON.parse(req.body) : req.body
\* (a body that is a string is a text: its characters are what is parsed)
Decode(body) == IF body.t = "text" THEN JSONparse(body.c) ELSE [ok |-> TRUE, v |-> body]

\* catch (err): res.status(500).json({ error: String(err?.message || err) });
\* without a catch the error leaves the handler.
Fail(r, impl, err) ==
    LET f == [r EXCEPT !.outcome = [kind |-> "failed", err |-> err]] IN
    IF Catches(impl) THEN SendJson(f, 500, [error |-> ErrorText(err)])
    ELSE Crash(f, err)

\* From the body's decoding to the first await of the tool's handler.
Pipeline(r0, impl, hasToken) ==
    LET r == [r0 EXCEPT !.path = "pipeline"]
        d == Decode(r.body)
    IN  IF ~d.ok THEN Crash(r, Err("SyntaxError", Msg("Unexpected token in JSON")))
        ELSE IF ChecksBody(impl) /\ Falsy(d.v)
        THEN SendJson(r, 400, [error |-> MissingBody(impl)])
        ELSE LET h == HandleJSON(impl, hasToken, d.v)
                 i == [r EXCEPT !.invoked = TRUE, !.env = d.v]
             IN  IF ~h.ok THEN Fail(i, impl, h.err)
                 ELSE [i EXCEPT !.pc = "fetch", !.call = h.call,
                                !.fetches = Append(@, h.request)]

\* Resume that sends figma()'s request once more after a non-2xx answer
ResumeRetry(r, impl, resp) ==
    LET t == ToolResult(impl, r.call, resp)
        b == [r EXCEPT !.backend = resp]
    IN  IF resp.kind = "http" /\ ~ResOk(resp.status) /\ Len(r.fetches) = 1
        THEN [b EXCEPT !.fetches = Append(@, @[1])]
        ELSE IF ~t.ok THEN Fail(b, impl, t.err)
        ELSE SendJson([b EXCEPT !.outcome = [kind |-> "ok", reply |-> Reply(r.env, t.result)]],
                      200, Reply(r.env, t.result))

\* Resume that answers a failed invocation with 200 and an empty result
ResumePartial(r, impl, resp) ==
    LET t == ToolResult(impl, r.call, resp)
        b == [r EXCEPT !.backend = resp]
    IN  IF ~t.ok
        THEN SendJson([b EXCEPT !.outcome = [kind |-> "failed", err |-> t.err]],
                      200, Reply(r.env, [content |-> <<>>]))
        ELSE SendJson([b EXCEPT !.outcome = [kind |-> "ok", reply |-> Reply(r.env, t.result)]],
                      200, Reply(r.env, t.result))

\* The rest of the pipeline, once figma()'s request has settled.
Resume(r, impl, resp) ==
    LET t == ToolResult(impl, r.call, resp)
        b == [r EXCEPT !.backend = resp]
    IN  IF ~t.ok THEN Fail(b, impl, t.err)
        ELSE SendJson([b EXCEPT !.outcome = [kind |-> "ok", reply |-> Reply(r.env, t.result)]],
                      200, Reply(r.env, t.result))

(***************************************************************************)
(* handler(req, res), up to its first await.                               *)
(***************************************************************************)
Health(impl, hasToken) ==
    IF impl = "mcp"
    THEN [ok |-> TRUE, server |-> "figma-mcp", env |-> hasToken,
          methods |-> <<"GET (SSE)", "POST (JSON-RPC)">>]
    ELSE [ok |-> TRUE, server |-> "figma-mcp", env |-> hasToken]

\* src/unnamed/part_000
HandlerMcp(r, hasToken) ==
    LET c == Cors(r) IN
    IF r.method = "OPTIONS" THEN EndEmpty([c EXCEPT !.path = "preflight"])
    ELSE IF r.method = "GET" THEN OpenSSE(c)
    ELSE IF r.method = "POST" THEN Pipeline(c, "mcp", hasToken)
    ELSE SendJson([c EXCEPT !.path = "fallback"], 200, Health("mcp", hasToken))

\* src/api/server.ts, first version: every request goes to the pipeline.
HandlerServer1(r, hasToken) == Pipeline(r, "server1", hasToken)

\* src/api/server.ts, second version
HandlerServer2(r, hasToken) ==
    LET c == Cors(r) IN
    IF r.method = "OPTIONS" THEN EndEmpty([c EXCEPT !.path = "preflight"])
    ELSE IF r.method = "GET"
    THEN SendJson([c EXCEPT !.path = "health"], 200, Health("server2", hasToken))
    ELSE Pipeline(c, "server2", hasToken)

Handler(impl, r, hasToken) ==
    CASE impl = "mcp" -> HandlerMcp(r, hasToken)
      [] impl = "server1" -> HandlerServer1(r, hasToken)
      [] impl = "server2" -> HandlerServer2(r, hasToken)

(***************************************************************************)
(* The requests clients send and the answers the remote API gives.         *)
(***************************************************************************)
Impls == {"mcp", "server1", "server2"}
Methods == {"OPTIONS", "GET", "POST", "PUT"}

Opt(k, v) == IF v = Undefined THEN <<>> ELSE <<Member(k, v)>>

Envelope(name, args) ==
    JObj(<<Member("jsonrpc", JStr("2.0")), Member("id", JNum(100)),
           Member("method", JStr("tools/call")),
           Member("params", JObj(<<Member("name", name)>> \o Opt("arguments", args)))>>)

FileKeys == {Undefined, JStr("F1"), JNum(100)}
NodeIds == {Undefined, JStr("N1"), JStr("toString"), JNum(100)}
Formats == {Undefined, JStr("png"), JStr("svg"), JStr("jpg")}
Scales == {Undefined, JNum(9), JNum(10), JNum(250), JNum(400), JNum(401), JStr("2")}

ExportNodeArguments ==
    {JObj(Opt("fileKey", f) \o Opt("nodeId", n) \o Opt("format", fmt) \o Opt("scale", sc)) :
        f \in FileKeys, n \in NodeIds, fmt \in Formats, sc \in Scales}

GetFileArguments ==
    {JObj(Opt("fileKey", f)) : f \in FileKeys}
        \cup {Undefined, JObj(<<Member("fileKey", JStr("F1")), Member("nodeId", JNum(100))>>)}

ExportNodeEnvelopes == {Envelope(JStr("export-node"), a) : a \in ExportNodeArguments}
GetFileEnvelopes == {Envelope(JStr("get-file"), a) : a \in GetFileArguments}
OtherEnvelopes ==
    {Envelope(JStr("delete-file"), JObj(<<Member("fileKey", JStr("F1"))>>)),
     Envelope(JStr("list-files"), Undefined)}

Envelopes == ExportNodeEnvelopes \cup GetFileEnvelopes \cup OtherEnvelopes

\* The envelopes that are also sent as JSON text: those that leave format
\* and scale to their defaults.
TextEnvelopes ==
    {e \in Envelopes :
        ~HasOwn(ToolArguments(e), "format") /\ ~HasOwn(ToolArguments(e), "scale")}

\* Strings that JSON.parse rejects, and JSON text of falsy values.
BadTexts == {JText(<<>>), JText(<<Word("not"), Word("json")>>), JText(<<Punct("{"), StrTok("id")>>)}
FalsyTexts == {JText(<<Word("null")>>), JText(<<NumTok("0")>>)}

Bodies ==
    Envelopes \cup {JText(Stringify(e, FALSE, 0)) : e \in TextEnvelopes}
        \cup BadTexts \cup FalsyTexts \cup {Undefined, JNull}

\* A request without a payload, and one with: GET and OPTIONS carry none.
RequestBodies(method) ==
    IF method = "POST" THEN Bodies
    ELSE IF method = "PUT"
    THEN {Undefined, Envelope(JStr("get-file"), JObj(<<Member("fileKey", JStr("F1"))>>))}
    ELSE {Undefined}

\* Documents of the remote API.
FileDoc ==
    JObj(<<Member("name", JStr("Doc")), Member("version", JNum(250)),
           Member("document",
                  JObj(<<Member("id", JStr("0:0")), Member("visible", JBool(TRUE)),
                         Member("children", JArr(<<JObj(<<>>), JArr(<<>>), JNull,
                                                    JArr(<<JNum(5), JBool(FALSE)>>)>>))>>))>>)

ImagesDoc(images) == JObj(<<Member("err", JNull), Member("images", images)>>)

ImageMaps ==
    {JNull, JObj(<<>>),
     JObj(<<Member("N1", JStr("https://img/1"))>>),
     JObj(<<Member("N1", JNull)>>),
     JObj(<<Member("N1", JStr(""))>>),
     JObj(<<Member("N2", JStr("https://img/2"))>>),
     JObj(<<Member("N2", JStr("https://img/2")), Member("N1", JStr("https://img/1"))>>)}

Docs == {FileDoc, JNull, JObj(<<Member("err", JStr("x"))>>)} \cup {ImagesDoc(m) : m \in ImageMaps}

NetErrors == {Err("TypeError", Msg("fetch failed")), Err("Error", EmptyMsg)}

BackendResponses ==
    {HttpResponse(200, Stringify(d, FALSE, 0)) : d \in Docs}
        \cup {HttpResponse(200, Stringify(FileDoc, TRUE, 0)),
              HttpResponse(200, <<Word("<html>")>>),
              HttpResponse(404, <<Word("Not"), Word("found")>>),
              HttpResponse(403, Stringify(ImagesDoc(JObj(<<Member("N1", JStr("https://img/1"))>>)),
                                          FALSE, 0))}
        \cup {NetworkFailure(e) : e \in NetErrors}

(***************************************************************************)
(* The state: which handler serves, whether FIGMA_ACCESS_TOKEN is set, and  *)
(* the connections.                                                        *)
(***************************************************************************)
VARIABLES impl, FIGMA_TOKEN, conn

vars == <<impl, FIGMA_TOKEN, conn>>

Init ==
    /\ impl \in Impls
    /\ FIGMA_TOKEN \in BOOLEAN
    /\ conn = [c \in ConnIds |-> IdleConn]

\* A connection that carries an event stream or nothing yet.
Streaming(r) == r.path \in {"none", "sse"}

\* A request arrives on the next connection and the handler runs up to its
\* first await.  Requests share no state (every POST builds its own Server),
\* so a run holds either one request with any body, or any number of streams
\* and, after them, one request of another kind without a body.
Receive(c) ==
    /\ conn[c].pc = "idle"
    /\ \A d \in ConnIds : d < c => conn[d].pc # "idle"
    /\ \A d \in ConnIds \ {c} : Streaming(conn[d])
    /\ LET alone == \A d \in ConnIds \ {c} : conn[d].pc = "idle" IN
       \E method \in Methods :
       \E body \in (IF alone THEN RequestBodies(method) ELSE {Undefined}) :
          conn' = [conn EXCEPT ![c] =
                      Handler(impl, [conn[c] EXCEPT !.method = method, !.body = body],
                              FIGMA_TOKEN)]
    /\ UNCHANGED <<impl, FIGMA_TOKEN>>

\* The remote API answers (or the request fails) and the pipeline resumes.
BackendRespond(c) ==
    /\ conn[c].pc = "fetch"
    /\ \E resp \in BackendResponses :
          conn' = [conn EXCEPT ![c] = Resume(conn[c], impl, resp)]
    /\ UNCHANGED <<impl, FIGMA_TOKEN>>

\* The keep-alive timer of a stream fires.
Tick(c) ==
    /\ conn[c].timer
    /\ conn[c].ticks < MaxTicks
    /\ conn' = KeepAliveOf(conn, c)
    /\ UNCHANGED <<impl, FIGMA_TOKEN>>

\* The socket of the next connection, or of an open stream, breaks.
SocketBreak(c) ==
    /\ conn[c].pc \in {"idle", "sse"}
    /\ ~conn[c].broken
    /\ \A d \in ConnIds : d < c => conn[d].pc # "idle"
    /\ conn' = [conn EXCEPT ![c] = Destroy(conn[c])]
    /\ UNCHANGED <<impl, FIGMA_TOKEN>>

\* req emits 'close' on a stream and the registered listener runs.  A 'close'
\* emitted before the listener was registered is not emitted again.
Close(c) ==
    /\ conn[c].listener
    /\ ~conn[c].closed
    /\ ~conn[c].missed
    /\ conn' = OnCloseOf(conn, c)
    /\ UNCHANGED <<impl, FIGMA_TOKEN>>

Next ==
    \E c \in ConnIds :
        \/ Receive(c)
        \/ BackendRespond(c)
        \/ Tick(c)
        \/ SocketBreak(c)
        \/ Close(c)

Spec == Init /\ [][Next]_vars

(***************************************************************************)
(* Properties.                                                             *)
(***************************************************************************)
Handled(r) == r.pc # "idle"
Finished(r) == r.pc \in {"done", "crashed"}

\* The body sent is the JSON of value.
SentJson(r, status, value) ==
    r.pc = "done" /\ r.status = status /\ r.sent = [kind |-> "json", value |-> value]

\* The request is a well-formed tool call that reached the dispatcher.
CallsTool(r, tool) ==
    r.invoked /\ IsToolCall(r.env) /\ ToolName(r.env) = JStr(tool)

\* The path a method selects.
C1_PathOf(method) ==
    CASE method = "OPTIONS" -> "preflight"
      [] method = "GET" -> "sse"
      [] method = "POST" -> "pipeline"
      [] OTHER -> "fallback"

\* C1: every request is handled by exactly the one path its method selects:
\* OPTIONS the empty 200, GET the event stream, POST the pipeline, any other
\* method the fallback status response.
C1_OnePathByMethod ==
    \A c \in ConnIds :
        LET r == conn[c] IN
        Handled(r) =>
            /\ r.path = C1_PathOf(r.method)
            /\ r.method = "OPTIONS" => r.status = 200 /\ r.sent = [kind |-> "empty"]
            /\ r.method = "GET" => r.sent = [kind |-> "stream"]
            /\ r.method \notin {"OPTIONS", "GET", "POST"} =>
                   SentJson(r, 200, [ok |-> TRUE, server |-> "figma-mcp", env |-> FIGMA_TOKEN,
                                     methods |-> <<"GET (SSE)", "POST (JSON-RPC)">>])

\* C2: a POST whose body is a string that is not valid JSON is answered with
\* 400 and an error field; the dispatcher is not called and no exception
\* leaves the handler.
C2_BadJsonIs400 ==
    \A c \in ConnIds :
        LET r == conn[c] IN
        (Handled(r) /\ r.method = "POST" /\ r.body.t = "text" /\ ~JSONparse(r.body.c).ok) =>
            /\ r.pc = "done"
            /\ r.status = 400
            /\ r.sent.kind = "json" /\ "error" \in DOMAIN r.sent.value
            /\ ~r.invoked

\* The message text, or the string form of an error without one.
C3_StringForm(err) == IF err.message = EmptyMsg THEN Msg(err.name) ELSE err.message

\* C3: every failure inside the pipeline other than a body error is caught
\* and answered with 500 and {error: m}, m the failure's message, or its
\* string form when it has no message.
C3_FailuresAre500 ==
    \A c \in ConnIds :
        LET r == conn[c] IN
        (r.invoked /\ IsToolCall(r.env) /\ r.outcome.kind = "failed") =>
            SentJson(r, 500, [error |-> C3_StringForm(r.outcome.err)])

\* The arguments a schema rejects, field by field.
C4_BadString(args, key) == ~HasOwn(args, key) \/ GetProp(args, key).t # "str"

C4_BadFormat(args) ==
    HasOwn(args, "format") /\ GetProp(args, "format") \notin {JStr("png"), JStr("svg")}

C4_BadScale(args) ==
    HasOwn(args, "scale") /\
        LET sc == GetProp(args, "scale") IN sc.t # "num" \/ sc.n < 10 \/ sc.n > 400

C4_Invalid(tool, args) ==
    \/ args.t # "obj"
    \/ C4_BadString(args, "fileKey")
    \/ tool = "export-node" /\
          (C4_BadString(args, "nodeId") \/ C4_BadFormat(args) \/ C4_BadScale(args))

C4_RejectedByValidation(r) == r.outcome.kind = "failed" /\ r.outcome.err.name = "ZodError"

\* C4: an export-node or get-file call whose arguments fail the schema
\* fails with no backend call made; scale = 0.1 and scale = 4 pass.
C4_ValidationBeforeBackend ==
    \A c \in ConnIds : \A tool \in ToolNames :
        LET r == conn[c]
            args == ToolArguments(r.env)
        IN  CallsTool(r, tool) =>
              /\ C4_Invalid(tool, args) =>
                    r.outcome.kind = "failed" /\ r.fetches = <<>> /\ Finished(r)
              /\ ~C4_Invalid(tool, args) => ~C4_RejectedByValidation(r)
              /\ (~C4_Invalid(tool, args) /\ FIGMA_TOKEN
                    /\ HasOwn(args, "scale") /\ GetProp(args, "scale") \in {JNum(10), JNum(400)}) =>
                    Len(r.fetches) = 1

\* A scale above 4, all else valid and the token set, was rejected with no
\* request sent.
C4_Witness ==
    \E c \in ConnIds :
        LET r == conn[c]
            args == ToolArguments(r.env)
        IN  /\ FIGMA_TOKEN
            /\ CallsTool(r, "export-node")
            /\ args.t = "obj"
            /\ GetProp(args, "scale") = JNum(401)
            /\ ~C4_BadString(args, "fileKey") /\ ~C4_BadString(args, "nodeId")
            /\ ~C4_BadFormat(args)
            /\ r.outcome.kind = "failed" /\ r.fetches = <<>>

\* C5: without the token every tool call fails with the configuration error
\* and no request is sent to the remote API.
C5_NoTokenNoCall ==
    \A c \in ConnIds : \A tool \in ToolNames :
        LET r == conn[c] IN
        (~FIGMA_TOKEN /\ CallsTool(r, tool)) =>
            /\ r.fetches = <<>>
            /\ r.outcome.kind = "failed"
            /\ ~C4_Invalid(tool, ToolArguments(r.env)) =>
                   r.outcome.err.message
                       = Msg("FIGMA_ACCESS_TOKEN mangler i environment variables")

\* C6: an envelope naming a tool that is not registered gets the same
\* failure response every time (500 and the error naming the tool), never a
\* crash, and no request is sent to the remote API.
C6_UnknownToolFails ==
    \A c \in ConnIds :
        LET r == conn[c] IN
        (r.invoked /\ IsToolCall(r.env) /\ ToolName(r.env) \notin {JStr(t) : t \in ToolNames}) =>
            /\ SentJson(r, 500, [error |-> [m |-> "Unknown tool: ", name |-> ToolName(r.env)]])
            /\ r.fetches = <<>>

\* An export-node or get-file call that the remote API answered with a 2xx
\* response holding a JSON document.
Answered(r, tool) ==
    /\ r.call.tool = tool
    /\ r.backend.kind = "http"
    /\ r.backend.status >= 200 /\ r.backend.status <= 299
    /\ JSONparse(r.backend.body).ok

BackendDoc(r) == JSONparse(r.backend.body).v

NoContent(r) ==
    /\ r.outcome.kind = "failed"
    /\ r.sent.kind = "json" => "result" \notin DOMAIN r.sent.value

NoUrlTexts ==
    {Msg("Ingen billed-URL retur fra Figma"),
     Msg("Ingen billed-URL retur fra Figma (tjek nodeId/fileKey)")}

SingleText(r, v) ==
    /\ r.outcome.kind = "ok"
    /\ r.outcome.reply.result.content = << [type |-> "text", text |-> v] >>

C8_FileRoundTrip ==
    \A c \in ConnIds :
        LET r == conn[c] IN
        Answered(r, "get-file") =>
            /\ r.outcome.kind = "ok"
            /\ LET content == r.outcome.reply.result.content IN
               /\ Len(content) = 1
               /\ content[1].type = "json"
               /\ content[1].text.t = "text"
               /\ JSONparse(content[1].text.c) = [ok |-> TRUE, v |-> BackendDoc(r)]

\* A get-file call returned the nested document.
C8_Witness ==
    \E c \in ConnIds :
        LET r == conn[c] IN
        /\ Answered(r, "get-file")
        /\ BackendDoc(r) = FileDoc
        /\ r.outcome.kind = "ok"
        /\ r.status = 200

\* C9: on a stream the first event is `initialized`, every later event is a
\* `ping`, and there is one ping per tick of the timer.
C9_InitializedThenPings ==
    \A c \in ConnIds :
        LET r == conn[c] IN
        r.path = "sse" =>
            /\ Len(r.events) = 1 + r.ticks
            /\ r.events[1] = InitializedEvent
            /\ \A i \in 2..Len(r.events) : r.events[i] = PingEvent

\* A stream that has been written `initialized` and two pings.
C9_Witness ==
    \E c \in ConnIds :
        conn[c].events = <<InitializedEvent, PingEvent, PingEvent>> /\ conn[c].ticks = 2

\* A closed stream has no timer and is ended.
C10_Closed(r) == r.closed => ~r.timer /\ r.ended

\* C10: once the close event of a stream has been handled, its timer is
\* cancelled, the stream is ended and nothing more is written to it.
C10_NoWriteAfterClose ==
    /\ [](\A c \in ConnIds : C10_Closed(conn[c]))
    /\ [][\A c \in ConnIds : conn[c].closed => conn'[c].events = conn[c].events]_vars

\* A stream closed after a ping, while another connection is still at work.
C10_Witness ==
    \E c, d \in ConnIds :
        /\ conn[c].closed /\ conn[c].ticks >= 1
        /\ d # c /\ conn[d].pc \in {"sse", "fetch"}


\* C11: once a write to the event stream has failed (the first event or a
\* ping), no exception is uncaught, the keep-alive timer is cancelled and the
\* handler has left the stream, whether or not 'close' was delivered.
C11_FailedWriteStopsStream ==
    \A c \in ConnIds :
        LET r == conn[c] IN
        (r.path = "sse" /\ r.failed) =>
            /\ r.uncaught = NoError
            /\ ~r.timer
            /\ r.pc = "done"


\* C12: when the remote API answers a backend call with a status outside
\* 200..299, the operation fails with an error carrying that status and the
\* response's text, the response is not read as a document (no content is
\* made from it), and the POST is answered with 500 and that error string.
C12_Non2xxIs500 ==
    \A c \in ConnIds :
        LET r == conn[c]
            m == [m |-> "Figma ", status |-> r.backend.status, text |-> JText(r.backend.body)]
        IN  (r.backend.kind = "http" /\ ~(r.backend.status >= 200 /\ r.backend.status <= 299)) =>
                /\ r.outcome = [kind |-> "failed", err |-> Err("Error", m)]
                /\ SentJson(r, 500, [error |-> m])


\* The decoded body is missing: none was sent, or it is falsy once decoded.
C13_MissingBody(body) ==
    \/ body = Undefined
    \/ body = JNull
    \/ body.t = "text" /\ JSONparse(body.c).ok /\ Falsy(JSONparse(body.c).v)

\* C13: a POST with a missing body (absent, or decoding to a falsy value such
\* as null) is answered with 400 and an error field, and neither the
\* dispatcher nor the remote API is called.
C13_MissingBodyIs400 ==
    \A c \in ConnIds :
        LET r == conn[c] IN
        (Handled(r) /\ r.method = "POST" /\ C13_MissingBody(r.body)) =>
            /\ r.pc = "done"
            /\ r.status = 400
            /\ r.sent.kind = "json" /\ "error" \in DOMAIN r.sent.value
            /\ ~r.invoked
            /\ r.fetches = <<>>


\* C14: every response the handler produces, on every path, carries the CORS
\* headers: Access-Control-Allow-Origin *, the allowed methods, and allowed
\* headers that admit the Content-Type header callers send.
C14_CorsOnEveryResponse ==
    \A c \in ConnIds :
        LET r == conn[c] IN
        r.sent.kind # "none" =>
            /\ r.headers["Access-Control-Allow-Origin"] = "*"
            /\ r.headers["Access-Control-Allow-Methods"] = "POST, GET, OPTIONS"
            /\ r.headers["Access-Control-Allow-Headers"] = "Content-Type"


\* The stream of connection c is open: the handler started it and its close
\* listener has not run.
C15_Open(c) == conn[c].path = "sse" /\ ~conn[c].closed

\* Connection c takes a timer tick or a close in this step.
C15_TickOrClose(c) ==
    conn'[c].ticks # conn[c].ticks \/ conn'[c].closed # conn[c].closed

\* C15: with any number of open streams, each open stream has its own timer
\* from the moment it opens; a timer tick writes to its own connection only,
\* and a close cancels that connection's timer only, leaving every other
\* connection's timer and stream as they were.
C15_TimersAreIndependent ==
    /\ [](\A c \in ConnIds : C15_Open(c) => conn[c].timer /\ ~conn[c].ended)
    /\ [][\A c \in ConnIds : C15_TickOrClose(c) =>
              \A d \in ConnIds \ {c} : conn'[d] = conn[d]]_vars

\* One stream was closed after a ping while another, opened beside it, is
\* still open with its timer and has been written pings.
C15_Witness ==
    \E c, d \in ConnIds :
        /\ c # d
        /\ conn[c].path = "sse" /\ conn[c].closed /\ conn[c].ticks >= 1
        /\ C15_Open(d) /\ conn[d].timer /\ conn[d].ticks = MaxTicks


\* C16: the handler never ends a stream on its own: a stream is ended only
\* by the step that handles its close event, and until then it stays open
\* with its timer armed, every tick writing one more ping.
C16_EndsOnlyOnClose ==
    /\ [](\A c \in ConnIds :
            LET r == conn[c] IN
            r.path = "sse" =>
                /\ r.ended <=> r.closed
                /\ ~r.closed => r.pc = "sse" /\ r.timer)
    /\ [][\A c \in ConnIds :
            (conn[c].path = "sse" /\ ~conn[c].closed /\ conn'[c] # conn[c]) =>
                \/ conn'[c].closed /\ conn'[c].ended
                \/ /\ conn'[c].ticks = conn[c].ticks + 1
                   /\ conn'[c].events = Append(conn[c].events, PingEvent)
                   /\ ~conn'[c].ended /\ conn'[c].timer
                \/ conn'[c] = Destroy(conn[c])]_vars

\* A stream whose client stayed connected through every tick of the run: it
\* is open, its timer is armed, and all its pings were written.
C16_Witness ==
    \E c \in ConnIds :
        /\ conn[c].pc = "sse" /\ ~conn[c].broken /\ ~conn[c].ended /\ conn[c].timer
        /\ conn[c].ticks = MaxTicks
        /\ Len(conn[c].events) = MaxTicks + 1


\* A POST the handler has answered.  (A POST whose handler call ended with
\* an exception was sent nothing by the handler.)
C17_Completed(r) == r.method = "POST" /\ r.pc = "done"

\* The 200 answer of a tool call that succeeded: the reply made of the
\* tool's result, as the dispatcher returned it, with at least one item.
C17_FullReply(r) ==
    /\ r.backend.kind # "none"
    /\ LET t == ToolResult(impl, r.call, r.backend) IN
       /\ t.ok
       /\ Len(t.result.content) >= 1
       /\ SentJson(r, 200, [jsonrpc |-> "2.0", id |-> GetProp(r.env, "id"), result |-> t.result])

\* A 400 or 500 answer whose body has the error field and nothing else.
C17_ErrorOnly(r) ==
    /\ r.outcome.kind # "ok"
    /\ r.status \in {400, 500}
    /\ r.sent.kind = "json" /\ DOMAIN r.sent.value = {"error"}

\* C17: every completed POST is answered either with 200 and the
\* dispatcher's reply unchanged, its content non-empty, after a successful
\* tool call, or with a 400 or 500 error body without content; a failed
\* invocation never yields a 200 or any content.
C17_ReplyOrError ==
    \A c \in ConnIds :
        LET r == conn[c] IN
        /\ C17_Completed(r) => C17_FullReply(r) \/ C17_ErrorOnly(r)
        /\ (r.method = "POST" /\ r.outcome.kind = "failed") =>
              /\ r.status # 200
              /\ r.sent.kind = "json" => "result" \notin DOMAIN r.sent.value

\* An export-node call failed after the remote API had answered 200 with a
\* document: the POST was answered 500 with the error only.
C17_Witness ==
    \E c \in ConnIds :
        LET r == conn[c] IN
        /\ C17_Completed(r)
        /\ r.call.tool = "export-node"
        /\ r.backend.kind = "http" /\ r.backend.status = 200
        /\ r.outcome.kind = "failed"
        /\ C17_ErrorOnly(r) /\ r.status = 500


\* The backend operation a request belongs to, by its URL: files/<key> is
\* the file fetch, images/<key> the export.
C18_Operation(request) ==
    CASE request.path[1] = "files/" -> "get-file"
      [] request.path[1] = "images/" -> "export-node"
      [] OTHER -> "none"

\* C18: one tool invocation sends at most one request to the remote API,
\* whatever the answer: a failed call is not sent again, get-file sends only
\* the file fetch and export-node only the export.
C18_AtMostOneBackendCall ==
    \A c \in ConnIds :
        LET r == conn[c] IN
        /\ Len(r.fetches) <= 1
        /\ \A i \in 1..Len(r.fetches) :
              /\ r.call.tool \in ToolNames
              /\ C18_Operation(r.fetches[i]) = r.call.tool
        /\ r.backend.kind # "none" => Len(r.fetches) = 1 /\ r.pc # "fetch"

\* An invocation whose one request the remote API refused (or that failed
\* on the network) has ended, with that one request sent and no more.
C18_Witness ==
    \E c \in ConnIds :
        LET r == conn[c] IN
        /\ r.backend.kind = "failed" \/ (r.backend.kind = "http" /\ r.backend.status = 404)
        /\ Finished(r)
        /\ Len(r.fetches) = 1
        /\ C18_Operation(r.fetches[1]) = "export-node"


\* The decimal text of the scales the schema admits among those sent.
C19_ScaleText(sc) ==
    CASE sc = JNum(10) -> "0.1"
      [] sc = JNum(250) -> "2.5"
      [] sc = JNum(400) -> "4"

\* The query the claim expects for the arguments of a valid call.
C19_Query(args) ==
    << <<"ids", GetProp(args, "nodeId").s>>,
       <<"format", IF HasOwn(args, "format") THEN GetProp(args, "format").s ELSE "png">>,
       <<"scale", IF HasOwn(args, "scale") THEN C19_ScaleText(GetProp(args, "scale")) ELSE "1">> >>

\* C19: for every valid export-node call the export request carries exactly
\* ids = nodeId, format and scale (as decimal text) of the arguments, an
\* omitted format sent as png and an omitted scale as 1, supplied values
\* unchanged; with the token set the request is sent.
C19_ExportQuery ==
    \A c \in ConnIds :
        LET r == conn[c]
            args == ToolArguments(r.env)
        IN  (CallsTool(r, "export-node") /\ ~C4_Invalid("export-node", args)) =>
               /\ FIGMA_TOKEN => Len(r.fetches) = 1
               /\ \A i \in 1..Len(r.fetches) :
                     /\ r.fetches[i].path = <<"images/", GetProp(args, "fileKey").s>>
                     /\ r.fetches[i].query = C19_Query(args)

\* An export-node call that names neither format nor scale was sent with
\* format=png and scale=1.
C19_Witness ==
    \E c \in ConnIds :
        LET r == conn[c]
            args == ToolArguments(r.env)
        IN  /\ CallsTool(r, "export-node")
            /\ args.t = "obj" /\ ~HasOwn(args, "format") /\ ~HasOwn(args, "scale")
            /\ Len(r.fetches) = 1
            /\ r.fetches[1].query = << <<"ids", "N1">>, <<"format", "png">>, <<"scale", "1">> >>


\* The image map of the answer has an entry of its own for nodeId, and the
\* entry's value is null or the empty string.
C20_FalsyEntry(r) ==
    LET images == GetProp(BackendDoc(r), "images") IN
    /\ BackendDoc(r).t = "obj"
    /\ images.t = "obj"
    /\ HasOwn(images, r.call.args.nodeId)
    /\ GetProp(images, r.call.args.nodeId) \in {JNull, JStr("")}

\* What the same invocation comes to when the map has no entry at all.
C20_AbsentOutcome ==
    [kind |-> "failed",
     err |-> ExportNodeResult(impl, JObj(<<Member("images", JObj(<<>>))>>),
                              [nodeId |-> "N1"]).err]

\* C20: in export-node an entry for nodeId that is present but null
\* or the empty string is treated as an absent entry, the invocation failing
\* with the 'no image URL' error and no text item; a text item is returned
\* only for a non-empty URL (a non-empty string).
C20_TextOnlyForUrl ==
    \A c \in ConnIds :
        LET r == conn[c] IN
        Answered(r, "export-node") =>
            /\ C20_FalsyEntry(r) =>
                  /\ r.outcome = C20_AbsentOutcome
                  /\ r.outcome.err.message \in NoUrlTexts
                  /\ NoContent(r)
            /\ r.outcome.kind = "ok" =>
                  LET content == r.outcome.reply.result.content IN
                  /\ Len(content) = 1 /\ content[1].type = "text"
                  /\ content[1].text.t = "str" /\ content[1].text # JStr("")
====
